---- MODULE Spec2Model ----
(***************************************************************************)
(* A model of the font editor of utilities/font_editor.py: the FontEditor  *)
(* object's fields, the widgets its handlers read back (the glyph-type     *)
(* combobox, the character listbox, the canvas), the files it opens, and   *)
(* one action per event handler.                                           *)
(*                                                                         *)
(* Python strings are sequences of one-character strings, Python's 0-based *)
(* indices are kept (the element at index i of a list l is l[i + 1]), and  *)
(* a handler that raises keeps the assignments it had made before: the     *)
(* operators named ...Error give the exception a handler raises.           *)
(***************************************************************************)
EXTENDS Integers, Sequences, FiniteSets, TLC

VARIABLES
  files,               \* the file system: path -> file
  font_data,           \* self.font_data
  file_path,           \* self.file_path
  current_glyph_type,  \* self.current_glyph_type
  current_char_index,  \* self.current_char_index
  grid_width,          \* self.grid_width
  grid_height,         \* self.grid_height
  last_drag_cell,      \* self.last_drag_cell (an attribute that may not exist)
  paint_val,           \* self.paint_val (an attribute that may not exist)
  glyph_type_var,      \* self.glyph_type_var
  type_combo,          \* the values offered by self.type_combo
  char_listbox,        \* the items of self.char_listbox
  canvas,              \* the cell rectangles on self.canvas, by row and column
  stroke               \* the pointer stroke over the canvas: whether button 1 is
                       \* held and, if so, what the pointer-down that began the
                       \* stroke did

vars == <<files, font_data, file_path, current_glyph_type, current_char_index,
          grid_width, grid_height, last_drag_cell, paint_val, glyph_type_var,
          type_combo, char_listbox, canvas, stroke>>

-----------------------------------------------------------------------------
(* Program constants.                                                      *)

DefaultGridWidth == 21
DefaultGridHeight == 31
cell_size == 18

(* Bounds of the model: the pointer visits the cells of row 0 and of column *)
(* 0 whose other coordinate is in -1 .. MaxPointerCell.                    *)
MaxPointerCell == 1

-----------------------------------------------------------------------------
(* Python values.                                                          *)

Rep(ch, n) == [i \in 1..n |-> ch]

\* d.get(key, default) on a dict modelled as a record with a set of keys
Get(d, key, default) == IF key \in d.keys THEN d[key] ELSE default

GlyphTypes == <<"LargeGlyphs", "SmallGlyphs">>

\* a glyph object {"Character": c, "BitArray": rows}
Glyph(c, rows) == [keys |-> {"Character", "BitArray"}, Character |-> c, BitArray |-> rows]
\* a glyph object without a BitArray
GlyphNoBits(c) == [keys |-> {"Character"}, Character |-> c, BitArray |-> <<>>]

\* a JSON array of glyph objects, and a JSON value that is no array
GlyphList(items) == [islist |-> TRUE, items |-> items]
NotAList == [islist |-> FALSE, items |-> <<>>]

\* what json.load returns: a dict, a list, or (before any load) None
NoneValue ==
  [top |-> "None", keys |-> {}, GlyphWidth |-> 0, GlyphHeight |-> 0,
   LargeGlyphs |-> NotAList, SmallGlyphs |-> NotAList]
ListValue == [NoneValue EXCEPT !.top = "list"]
DictValue(keys, w, h, large, small) ==
  [top |-> "dict", keys |-> keys, GlyphWidth |-> w, GlyphHeight |-> h,
   LargeGlyphs |-> large, SmallGlyphs |-> small]

\* Python truth value of self.font_data
Truthy(fd) == fd.top = "dict" /\ fd.keys # {}

-----------------------------------------------------------------------------
(* The files the user can pick in the dialog.                              *)

\* a 1x2 font with two large glyphs: a well-formed one, and one with a short
\* row and a missing row
LargeFont ==
  DictValue({"GlyphWidth", "GlyphHeight", "LargeGlyphs"}, 1, 2,
            GlyphList(<< Glyph("A", << <<".">>, <<".">> >>),
                         Glyph("B", << <<>> >>) >>),
            NotAList)

\* a 2x1 font with both types: a large glyph without BitArray, no small glyph
BothFont ==
  DictValue({"GlyphWidth", "GlyphHeight", "LargeGlyphs", "SmallGlyphs"}, 2, 1,
            GlyphList(<< GlyphNoBits("") >>),
            GlyphList(<<>>))

\* a font of width 1 without GlyphHeight and without LargeGlyphs: one small
\* glyph of two rows "X"
SmallFont ==
  DictValue({"GlyphWidth", "SmallGlyphs"}, 1, 0, NotAList,
            GlyphList(<< Glyph("A", << <<"X">>, <<"X">> >>) >>))

\* a JSON object without GlyphWidth and with neither glyph type
EmptyFont == DictValue({"GlyphHeight"}, 0, 2, NotAList, NotAList)

\* a 2x1 font whose LargeGlyphs is a number, and whose small glyph has an
\* over-long row, one row too many and a character that is neither . nor X
NonListFont ==
  DictValue({"GlyphWidth", "GlyphHeight", "LargeGlyphs", "SmallGlyphs"}, 2, 1,
            NotAList,
            GlyphList(<< Glyph(" ", << <<"X", "o", ".">>, <<"X">> >>) >>))

File(exists, json, writable, value) ==
  [exists |-> exists, json |-> json, writable |-> writable, value |-> value]

Paths == {"large.json", "both.json", "small.json", "empty.json", "nonlist.json",
          "list.json", "bad.json", "missing.json"}

InitialFiles ==
  [p \in Paths |->
     CASE p = "large.json"   -> File(TRUE, TRUE, FALSE, LargeFont)
       [] p = "both.json"    -> File(TRUE, TRUE, FALSE, BothFont)
       [] p = "small.json"   -> File(TRUE, TRUE, FALSE, SmallFont)
       [] p = "empty.json"   -> File(TRUE, TRUE, TRUE, EmptyFont)
       [] p = "nonlist.json" -> File(TRUE, TRUE, FALSE, NonListFont)
       [] p = "list.json"    -> File(TRUE, TRUE, FALSE, ListValue)
       [] p = "bad.json"     -> File(TRUE, FALSE, FALSE, NoneValue)
       [] OTHER              -> File(FALSE, FALSE, FALSE, NoneValue)]

\* the dialog returns "" when it is cancelled
Cancelled == ""
\* self.file_path before any load
NoPath == "None"

-----------------------------------------------------------------------------
(* __init__ and setup_ui.                                                  *)

NoCell == [attr |-> "unset", row |-> 0, col |-> 0]
NoneCell == [attr |-> "None", row |-> 0, col |-> 0]
Cell(r, c) == [attr |-> "cell", row |-> r, col |-> c]

\* no stroke: button 1 is up
StrokeUp == [state |-> "up", mark |-> "", row |-> 0, col |-> 0]
\* a stroke whose pointer-down changed nothing
StrokeNoop == [state |-> "noop", mark |-> "", row |-> 0, col |-> 0]
\* a stroke whose pointer-down wrote `mark` at (r, c)
StrokeAt(mark, r, c) == [state |-> "applied", mark |-> mark, row |-> r, col |-> c]

Init ==
  /\ files = InitialFiles
  /\ font_data = NoneValue
  /\ file_path = NoPath
  /\ current_glyph_type = "LargeGlyphs"
  /\ current_char_index = -1
  /\ grid_width = DefaultGridWidth
  /\ grid_height = DefaultGridHeight
  /\ last_drag_cell = NoCell
  /\ paint_val = "unset"
  /\ glyph_type_var = "LargeGlyphs"
  /\ type_combo = GlyphTypes
  /\ char_listbox = <<>>
  /\ canvas = <<>>
  /\ stroke = StrokeUp

-----------------------------------------------------------------------------
(* Helpers shared by the handlers.                                         *)

\* the exception raised by self.font_data[t][idx], "none" if there is none
GlyphError(fd, t, idx) ==
  IF fd.top # "dict" THEN "TypeError"
  ELSE IF t \notin fd.keys THEN "KeyError"
  ELSE IF ~fd[t].islist THEN "TypeError"
  ELSE IF idx >= Len(fd[t].items) THEN "IndexError"
  ELSE "none"

\* self.font_data[t][idx]
GlyphAt(fd, t, idx) == fd[t].items[idx + 1]

\* the assignment with a bug: every glyph of the type shares one BitArray
SetBitArrayOfAll(fd, t, idx, bits) ==
  [fd EXCEPT ![t].items =
     [i \in 1..Len(@) |-> [@[i] EXCEPT !.keys = @ \cup {"BitArray"}, !.BitArray = bits]]]

\* glyph["BitArray"] = bits, for the glyph at self.font_data[t][idx]
SetBitArray(fd, t, idx, bits) ==
  [fd EXCEPT ![t].items[idx + 1] =
     [@ EXCEPT !.keys = @ \cup {"BitArray"}, !.BitArray = bits]]

\* the name update_char_list shows for a glyph
DisplayName(glyph) ==
  LET char == Get(glyph, "Character", "?")
  IN  IF char = " " THEN "[SPACE]" ELSE IF char = "" THEN "[EMPTY]" ELSE char

\* update_char_list: the listbox items it leaves and the exception it raises
UpdateCharList(fd, t) ==
  IF ~Truthy(fd) \/ t \notin fd.keys
    THEN [items |-> <<>>, raised |-> "none"]
  ELSE IF ~fd[t].islist
    THEN [items |-> <<>>, raised |-> "TypeError"]
  ELSE [items |-> [i \in 1..Len(fd[t].items) |-> DisplayName(fd[t].items[i])],
        raised |-> "none"]

\* the colour draw_grid gives the cell at (r, c) of bit_array (0-based)
CellColor(bit_array, r, c, gw) ==
  LET line == IF r < Len(bit_array) THEN bit_array[r + 1] ELSE Rep(".", gw)
      char == IF c < Len(line) THEN line[c + 1] ELSE "."
  IN  IF char = "X" THEN "black" ELSE "white"

\* draw_grid: the canvas it leaves and the exception it raises
DrawGrid(fd, t, idx, gw, gh) ==
  IF idx < 0 THEN [cells |-> <<>>, raised |-> "none"]
  ELSE IF GlyphError(fd, t, idx) # "none"
    THEN [cells |-> <<>>, raised |-> GlyphError(fd, t, idx)]
  ELSE LET bit_array == Get(GlyphAt(fd, t, idx), "BitArray", <<>>)
       IN  [cells |-> [r \in 1..gh |-> [c \in 1..gw |->
                          CellColor(bit_array, r - 1, c - 1, gw)]],
            raised |-> "none"]

\* canvas.itemconfig(f"cell_{row}_{col}", fill=color)
ItemConfig(cells, row, col, color) ==
  IF row < Len(cells) /\ col < Len(cells[row + 1])
    THEN [cells EXCEPT ![row + 1][col + 1] = color]
    ELSE cells

-----------------------------------------------------------------------------
(* open_file                                                               *)

\* the types open_file finds in the document
TypesIn(fd) == SelectSeq(GlyphTypes, LAMBDA t : t \in fd.keys)

\* self.current_glyph_type after open_file has looked at the types of fd
TypeAfterOpen(fd, current) ==
  LET types == TypesIn(fd)
  IN  IF types # <<>> /\ current \notin {types[i] : i \in 1..Len(types)}
        THEN types[1] ELSE current

\* the exception open_file catches and shows in its error box ("none": the
\* load goes through to set_status)
OpenFileError(path, current) ==
  IF ~files[path].exists THEN "FileNotFoundError"
  ELSE IF ~files[path].json THEN "JSONDecodeError"
  ELSE IF files[path].value.top # "dict" THEN "AttributeError"
  ELSE UpdateCharList(files[path].value,
                      TypeAfterOpen(files[path].value, current)).raised

OpenFile(path) ==
  IF path = Cancelled \/ ~files[path].exists \/ ~files[path].json
    THEN \* the dialog is cancelled, or open() or json.load() raises before
         \* anything is assigned
         UNCHANGED vars
  ELSE LET fd == files[path].value
           types == TypesIn(fd)
           t == TypeAfterOpen(fd, current_glyph_type)
       IN  /\ font_data' = fd
           /\ file_path' = path
           /\ UNCHANGED <<files, current_char_index, last_drag_cell, paint_val,
                          canvas, stroke>>
           /\ IF fd.top # "dict"
                THEN \* self.font_data.get raises AttributeError
                     UNCHANGED <<current_glyph_type, grid_width, grid_height,
                                 glyph_type_var, type_combo, char_listbox>>
                ELSE /\ grid_width' = Get(fd, "GlyphWidth", DefaultGridWidth)
                     /\ grid_height' = Get(fd, "GlyphHeight", DefaultGridHeight)
                     /\ type_combo' = IF types # <<>> THEN types ELSE type_combo
                     /\ current_glyph_type' = t
                     /\ glyph_type_var' = IF t # current_glyph_type THEN t ELSE glyph_type_var
                     /\ char_listbox' = UpdateCharList(fd, t).items

-----------------------------------------------------------------------------
(* on_type_change and on_char_select                                       *)

\* the user picks the value t in the combobox
OnTypeChange(t) ==
  LET listed == UpdateCharList(font_data, t) IN
  /\ glyph_type_var' = t
  /\ current_glyph_type' = t
  /\ char_listbox' = listed.items
  /\ IF listed.raised # "none"
       THEN UNCHANGED <<current_char_index, canvas>>
       ELSE /\ current_char_index' = -1
            /\ canvas' = <<>>
  /\ UNCHANGED <<files, font_data, file_path, grid_width, grid_height,
                 last_drag_cell, paint_val, type_combo, stroke>>

\* the user picks the item at index i of the listbox
OnCharSelect(i) ==
  LET drawn == DrawGrid(font_data, current_glyph_type, i, grid_width, grid_height)
  IN  /\ current_char_index' = i
      /\ canvas' = IF GlyphError(font_data, current_glyph_type, i) # "none"
                     THEN canvas ELSE drawn.cells
      /\ UNCHANGED <<files, font_data, file_path, current_glyph_type, grid_width,
                     grid_height, last_drag_cell, paint_val, glyph_type_var,
                     type_combo, char_listbox, stroke>>

-----------------------------------------------------------------------------
(* toggle_cell, on_canvas_click and on_canvas_drag                         *)

\* toggle_cell with a bug: missing rows are appended as rows of "X"
ToggleBitsPadX(bit_array, row, col, mode, pv, gw, gh) ==
  LET padded == IF Len(bit_array) < gh
                  THEN bit_array \o [i \in 1..(gh - Len(bit_array)) |-> Rep("X", gw)]
                  ELSE bit_array
      line0 == padded[row + 1]
      line == IF Len(line0) < gw THEN line0 \o Rep(".", gw - Len(line0)) ELSE line0
      new == IF mode = "toggle"
               THEN (IF line[col + 1] = "." THEN "X" ELSE ".")
               ELSE (IF pv # "unset" THEN pv ELSE "X")
  IN  [padded EXCEPT ![row + 1] = [line EXCEPT ![col + 1] = new]]

\* toggle_cell with a bug: paint mode flips the cell as toggle mode does
ToggleBitsPaintFlips(bit_array, row, col, mode, pv, gw, gh) ==
  LET padded == IF Len(bit_array) < gh
                  THEN bit_array \o [i \in 1..(gh - Len(bit_array)) |-> Rep(".", gw)]
                  ELSE bit_array
      line0 == padded[row + 1]
      line == IF Len(line0) < gw THEN line0 \o Rep(".", gw - Len(line0)) ELSE line0
      new == IF line[col + 1] = "." THEN "X" ELSE "."
  IN  [padded EXCEPT ![row + 1] = [line EXCEPT ![col + 1] = new]]

\* toggle_cell with a bug: toggle mode always writes "X"
ToggleBitsSetsX(bit_array, row, col, mode, pv, gw, gh) ==
  LET padded == IF Len(bit_array) < gh
                  THEN bit_array \o [i \in 1..(gh - Len(bit_array)) |-> Rep(".", gw)]
                  ELSE bit_array
      line0 == padded[row + 1]
      line == IF Len(line0) < gw THEN line0 \o Rep(".", gw - Len(line0)) ELSE line0
      new == IF mode = "toggle" THEN "X" ELSE (IF pv # "unset" THEN pv ELSE "X")
  IN  [padded EXCEPT ![row + 1] = [line EXCEPT ![col + 1] = new]]

\* bit_array after the two padding loops and the write of toggle_cell
ToggleBits(bit_array, row, col, mode, pv, gw, gh) ==
  LET padded == IF Len(bit_array) < gh
                  THEN bit_array \o [i \in 1..(gh - Len(bit_array)) |-> Rep(".", gw)]
                  ELSE bit_array
      line0 == padded[row + 1]
      line == IF Len(line0) < gw THEN line0 \o Rep(".", gw - Len(line0)) ELSE line0
      new == IF mode = "toggle"
               THEN (IF line[col + 1] = "." THEN "X" ELSE ".")
               ELSE (IF pv # "unset" THEN pv ELSE "X")
  IN  [padded EXCEPT ![row + 1] = [line EXCEPT ![col + 1] = new]]

\* the guards of toggle_cell with a bug: no check against the last cell
AppliesNoRepeatCheck(x, y, mode, ldc) ==
  LET col == x \div cell_size
      row == y \div cell_size
  IN  /\ current_char_index >= 0
      /\ 0 <= col /\ col < grid_width /\ 0 <= row /\ row < grid_height

\* whether toggle_cell(x, y, mode), entered with self.last_drag_cell = ldc,
\* gets past its guards to the glyph
Applies(x, y, mode, ldc) ==
  LET col == x \div cell_size
      row == y \div cell_size
  IN  /\ current_char_index >= 0
      /\ 0 <= col /\ col < grid_width /\ 0 <= row /\ row < grid_height
      /\ ~(ldc.attr # "unset" /\ mode = "paint" /\ ldc = Cell(row, col))

\* toggle_cell with a bug: in paint mode a pointer outside the grid paints
\* the nearest cell of the grid
ToggleCellPaintClamps(x, y, mode, ldc) ==
  LET clamp(v, n) == IF mode # "paint" THEN v
                     ELSE IF v < 0 THEN 0 ELSE IF v >= n THEN n - 1 ELSE v
      col == clamp(x \div cell_size, grid_width)
      row == clamp(y \div cell_size, grid_height)
      glyph == GlyphAt(font_data, current_glyph_type, current_char_index)
      bits == ToggleBits(Get(glyph, "BitArray", <<>>), row, col, mode, paint_val,
                         grid_width, grid_height)
      mark == bits[row + 1][col + 1]
  IN  IF \/ ~Applies(col * cell_size, row * cell_size, mode, ldc)
         \/ GlyphError(font_data, current_glyph_type, current_char_index) # "none"
        THEN /\ last_drag_cell' = ldc
             /\ UNCHANGED <<font_data, paint_val, canvas>>
        ELSE /\ last_drag_cell' = Cell(row, col)
             /\ paint_val' = IF mode = "toggle" THEN mark ELSE paint_val
             /\ font_data' = SetBitArray(font_data, current_glyph_type,
                                         current_char_index, bits)
             /\ canvas' = ItemConfig(canvas, row, col,
                                     IF mark = "X" THEN "black" ELSE "white")

\* toggle_cell(x, y, mode), entered with self.last_drag_cell = ldc
ToggleCell(x, y, mode, ldc) ==
  LET col == x \div cell_size
      row == y \div cell_size
      glyph == GlyphAt(font_data, current_glyph_type, current_char_index)
      bits == ToggleBits(Get(glyph, "BitArray", <<>>), row, col, mode, paint_val,
                         grid_width, grid_height)
      mark == bits[row + 1][col + 1]
  IN  IF \/ ~Applies(x, y, mode, ldc)
         \/ GlyphError(font_data, current_glyph_type, current_char_index) # "none"
        THEN \* an early return, or the glyph lookup raises
             /\ last_drag_cell' = ldc
             /\ UNCHANGED <<font_data, paint_val, canvas>>
        ELSE /\ last_drag_cell' = Cell(row, col)
             /\ paint_val' = IF mode = "toggle" THEN mark ELSE paint_val
             /\ font_data' = SetBitArray(font_data, current_glyph_type,
                                         current_char_index, bits)
             /\ canvas' = ItemConfig(canvas, row, col,
                                     IF mark = "X" THEN "black" ELSE "white")

\* the exception toggle_cell(x, y, mode) raises, "none" if it returns
ToggleCellError(x, y, mode, ldc) ==
  IF Applies(x, y, mode, ldc)
    THEN GlyphError(font_data, current_glyph_type, current_char_index)
    ELSE "none"

OnCanvasClick(x, y) ==
  /\ UNCHANGED <<files, file_path, current_glyph_type, current_char_index,
                 grid_width, grid_height, glyph_type_var, type_combo, char_listbox>>
  /\ ToggleCell(x, y, "toggle", NoneCell)
  /\ stroke' = IF last_drag_cell' = NoneCell
                 THEN StrokeNoop
                 ELSE LET row == y \div cell_size
                          col == x \div cell_size
                          glyph == GlyphAt(font_data', current_glyph_type,
                                           current_char_index)
                      IN  StrokeAt(glyph.BitArray[row + 1][col + 1], row, col)

OnCanvasDrag(x, y) ==
  /\ stroke.state # "up"
  /\ UNCHANGED <<files, file_path, current_glyph_type, current_char_index,
                 grid_width, grid_height, glyph_type_var, type_combo, char_listbox,
                 stroke>>
  /\ ToggleCell(x, y, "paint", last_drag_cell)

\* the pointer button is released: no handler is bound to it
ButtonRelease ==
  /\ stroke.state # "up"
  /\ stroke' = StrokeUp
  /\ UNCHANGED <<files, font_data, file_path, current_glyph_type, current_char_index,
                 grid_width, grid_height, last_drag_cell, paint_val, glyph_type_var,
                 type_combo, char_listbox, canvas>>

-----------------------------------------------------------------------------
(* clear_grid and invert_grid                                              *)

\* clear_grid with a bug: width and height swapped
ClearedBitsSwapped(gw, gh) == [r \in 1..gw |-> Rep(".", gh)]

\* the bitmap clear_grid writes
ClearedBits(gw, gh) == [r \in 1..gh |-> Rep(".", gw)]

\* the user presses Clear and answers the confirmation with `confirm`
ClearGrid(confirm) ==
  LET fd == SetBitArray(font_data, current_glyph_type, current_char_index,
                        ClearedBits(grid_width, grid_height))
  IN  /\ IF \/ current_char_index < 0
            \/ ~confirm
            \/ GlyphError(font_data, current_glyph_type, current_char_index) # "none"
           THEN UNCHANGED <<font_data, canvas>>
           ELSE /\ font_data' = fd
                /\ canvas' = DrawGrid(fd, current_glyph_type, current_char_index,
                                      grid_width, grid_height).cells
      /\ UNCHANGED <<files, file_path, current_glyph_type, current_char_index,
                     grid_width, grid_height, last_drag_cell, paint_val,
                     glyph_type_var, type_combo, char_listbox, stroke>>

\* invert_grid with a bug: a short row is padded with "X"
InvertRowPadX(row, gw) ==
  LET padded == IF Len(row) < gw THEN row \o Rep("X", gw - Len(row)) ELSE row
  IN  [c \in 1..gw |-> IF padded[c] = "X" THEN "." ELSE "X"]

\* invert_grid with a bug: only "." and "X" are swapped, any other character
\* is kept
InvertRowSwapsMarks(row, gw) ==
  LET padded == IF Len(row) < gw THEN row \o Rep(".", gw - Len(row)) ELSE row
  IN  [c \in 1..gw |-> IF padded[c] = "X" THEN "."
                        ELSE IF padded[c] = "." THEN "X" ELSE padded[c]]

\* new_row of invert_grid for one row
InvertRow(row, gw) ==
  LET padded == IF Len(row) < gw THEN row \o Rep(".", gw - Len(row)) ELSE row
  IN  [c \in 1..gw |-> IF padded[c] = "X" THEN "." ELSE "X"]

\* the rows of new_bit_array that invert_grid makes of the rows of bit_array
InvertedRows(bit_array, gw) ==
  [r \in 1..Len(bit_array) |-> InvertRow(bit_array[r], gw)]

\* invert_grid with a bug: missing rows are filled with "."
InvertBitsFillDots(bit_array, gw, gh) ==
  LET inverted == InvertedRows(bit_array, gw)
  IN  IF Len(inverted) < gh
        THEN inverted \o [r \in 1..(gh - Len(inverted)) |-> Rep(".", gw)]
        ELSE inverted

\* new_bit_array of invert_grid
InvertBits(bit_array, gw, gh) ==
  LET inverted == InvertedRows(bit_array, gw)
  IN  IF Len(inverted) < gh
        THEN inverted \o [r \in 1..(gh - Len(inverted)) |-> Rep("X", gw)]
        ELSE inverted

InvertGrid ==
  LET glyph == GlyphAt(font_data, current_glyph_type, current_char_index)
      fd == SetBitArray(font_data, current_glyph_type, current_char_index,
                        InvertBits(Get(glyph, "BitArray", <<>>), grid_width, grid_height))
  IN  /\ IF \/ current_char_index < 0
            \/ GlyphError(font_data, current_glyph_type, current_char_index) # "none"
           THEN UNCHANGED <<font_data, canvas>>
           ELSE /\ font_data' = fd
                /\ canvas' = DrawGrid(fd, current_glyph_type, current_char_index,
                                      grid_width, grid_height).cells
      /\ UNCHANGED <<files, file_path, current_glyph_type, current_char_index,
                     grid_width, grid_height, last_drag_cell, paint_val,
                     glyph_type_var, type_combo, char_listbox, stroke>>

-----------------------------------------------------------------------------
(* save_file                                                               *)

\* what save_file tells the user
SaveFileResult ==
  IF ~Truthy(font_data) \/ file_path = NoPath THEN "showwarning"
  ELSE IF ~files[file_path].writable THEN "showerror"
  ELSE "showinfo"

\* save_file with a bug: the file is written back as it was read
SavedFilesAsRead(fs, path, fd) ==
  [fs EXCEPT ![path] = File(TRUE, TRUE, TRUE, fs[path].value)]

\* the file system after open(path, 'w') and json.dump(fd, f)
SavedFiles(fs, path, fd) ==
  [fs EXCEPT ![path] = File(TRUE, TRUE, TRUE, fd)]

SaveFile ==
  /\ IF SaveFileResult = "showinfo"
       THEN files' = SavedFiles(files, file_path, font_data)
       ELSE UNCHANGED files
  /\ UNCHANGED <<font_data, file_path, current_glyph_type, current_char_index,
                 grid_width, grid_height, last_drag_cell, paint_val, glyph_type_var,
                 type_combo, char_listbox, canvas, stroke>>

-----------------------------------------------------------------------------
(* The events of a session.                                                *)

\* the pointer positions <<x, y>> the events carry
Pointers ==
  {<<c * cell_size + 5, 5>> : c \in (-1)..MaxPointerCell}
    \cup {<<5, r * cell_size + 5>> : r \in (-1)..MaxPointerCell}

Next ==
  \/ \E path \in Paths \cup {Cancelled} : OpenFile(path)
  \/ \E i \in 1..Len(type_combo) : OnTypeChange(type_combo[i])
  \/ \E i \in 0..(Len(char_listbox) - 1) : OnCharSelect(i)
  \/ \E p \in Pointers : OnCanvasClick(p[1], p[2])
  \/ \E p \in Pointers : OnCanvasDrag(p[1], p[2])
  \/ ButtonRelease
  \/ \E confirm \in BOOLEAN : ClearGrid(confirm)
  \/ InvertGrid
  \/ SaveFile

Spec == Init /\ [][Next]_vars

-----------------------------------------------------------------------------
(* A session in which the user may write both.json: its document can be   *)
(* edited, saved and loaded again; large.json is read-only.                *)

SavePaths == {"large.json", "both.json", "missing.json"}

WritableFiles == [InitialFiles EXCEPT !["both.json"].writable = TRUE]

InitSave ==
  /\ files = WritableFiles
  /\ font_data = NoneValue
  /\ file_path = NoPath
  /\ current_glyph_type = "LargeGlyphs"
  /\ current_char_index = -1
  /\ grid_width = DefaultGridWidth
  /\ grid_height = DefaultGridHeight
  /\ last_drag_cell = NoCell
  /\ paint_val = "unset"
  /\ glyph_type_var = "LargeGlyphs"
  /\ type_combo = GlyphTypes
  /\ char_listbox = <<>>
  /\ canvas = <<>>
  /\ stroke = StrokeUp

NextSave ==
  \/ \E path \in SavePaths \cup {Cancelled} : OpenFile(path)
  \/ \E i \in 1..Len(type_combo) : OnTypeChange(type_combo[i])
  \/ \E i \in 0..(Len(char_listbox) - 1) : OnCharSelect(i)
  \/ \E p \in Pointers : OnCanvasClick(p[1], p[2])
  \/ \E p \in Pointers : OnCanvasDrag(p[1], p[2])
  \/ ButtonRelease
  \/ \E confirm \in BOOLEAN : ClearGrid(confirm)
  \/ InvertGrid
  \/ SaveFile

SaveSpec == InitSave /\ [][NextSave]_vars

-----------------------------------------------------------------------------
(* Vocabulary of the properties.                                           *)

Marks == {".", "X"}

\* GlyphWidth and GlyphHeight of the loaded document
DocWidth == Get(font_data, "GlyphWidth", DefaultGridWidth)
DocHeight == Get(font_data, "GlyphHeight", DefaultGridHeight)

\* a glyph is selected and it exists in the loaded document
ValidSelection ==
  /\ current_char_index >= 0
  /\ GlyphError(font_data, current_glyph_type, current_char_index) = "none"

\* the selected glyph and its bitmap ([] when it has no BitArray)
SelectedGlyph == GlyphAt(font_data, current_glyph_type, current_char_index)
SelectedBits == Get(SelectedGlyph, "BitArray", <<>>)

\* the mark of cell (r, c) of a bitmap, a missing row or character counting as "."
Shown(bits, r, c) ==
  IF r < Len(bits) /\ c < Len(bits[r + 1]) THEN bits[r + 1][c + 1] ELSE "."

\* cell (r, c) of the bitmap holds a mark or nothing
IsMark(bits, r, c) == Shown(bits, r, c) \in Marks

\* the cell a pointer position falls in
RowOf(p) == p[2] \div cell_size
ColOf(p) == p[1] \div cell_size
InRange(p) ==
  /\ 0 <= RowOf(p) /\ RowOf(p) < DocHeight
  /\ 0 <= ColOf(p) /\ ColOf(p) < DocWidth

\* toggleCell at p is on_canvas_click, paintCell at p is on_canvas_drag
ToggleCellAt(p) == OnCanvasClick(p[1], p[2])
PaintCellAt(p) == OnCanvasDrag(p[1], p[2])

\* the toggleCell or paintCell at p is applied: it is in range, on a glyph
\* that exists, and not suppressed as a repeat
ToggleApplied(p) == InRange(p) /\ ValidSelection
PaintApplied(p) ==
  InRange(p) /\ ValidSelection /\ last_drag_cell # Cell(RowOf(p), ColOf(p))

-----------------------------------------------------------------------------
(* C1: a load attempt either reports no error and replaces the document by *)
(* the file's content, or reports an error and leaves the document, its    *)
(* path, the grid dimensions, the glyph type and the selection as they     *)
(* were.                                                                   *)
C1_LoadAllOrNothing ==
  [][\A path \in Paths :
       OpenFile(path) =>
         IF OpenFileError(path, current_glyph_type) = "none"
           THEN font_data' = files[path].value /\ file_path' = path
           ELSE UNCHANGED <<font_data, file_path, grid_width, grid_height,
                            current_glyph_type, current_char_index>>]_vars

(* C2: in every reachable state either no glyph is selected, or the        *)
(* current type is a key of the loaded document and the selected index is  *)
(* an index of that type's glyph sequence.                                 *)
C2_SelectionValid ==
  current_char_index >= 0 =>
    /\ font_data.top = "dict"
    /\ current_glyph_type \in font_data.keys
    /\ font_data[current_glyph_type].islist
    /\ current_char_index < Len(font_data[current_glyph_type].items)

\* the bitmap has fewer rows than GlyphHeight and/or a row shorter than GlyphWidth
Malformed(bits) ==
  \/ Len(bits) < DocHeight
  \/ \E r \in 1..Len(bits) : Len(bits[r]) < DocWidth

\* exactly GlyphHeight rows of exactly GlyphWidth characters
ExactShape(bits) ==
  /\ Len(bits) = DocHeight
  /\ \A r \in 1..Len(bits) : Len(bits[r]) = DocWidth

\* every in-bounds character of `old` other than the one at (row, col) is in `new`
MarksKept(old, new, row, col) ==
  \A r \in 0..(DocHeight - 1), c \in 0..(DocWidth - 1) :
    (r < Len(old) /\ c < Len(old[r + 1]) /\ <<r, c>> # <<row, col>>)
      => Shown(new, r, c) = old[r + 1][c + 1]

\* a toggleCell or paintCell step at p that is applied
EditAt(p) ==
  \/ ToggleApplied(p) /\ ToggleCellAt(p)
  \/ PaintApplied(p) /\ PaintCellAt(p)

Max(a, b) == IF a >= b THEN a ELSE b

(* C3: an applied toggleCell or paintCell on a bitmap with too few rows    *)
(* and/or short rows leaves exactly GlyphHeight rows of exactly GlyphWidth *)
(* characters, and keeps every in-bounds mark but the one at (row, col).   *)
C3_EnsureShape ==
  [][\A p \in Pointers :
       (ValidSelection /\ Malformed(SelectedBits) /\ EditAt(p)) =>
         /\ ExactShape(SelectedBits')
         /\ MarksKept(SelectedBits, SelectedBits', RowOf(p), ColOf(p))]_vars

(* C3 as amended: such an edit appends rows of GlyphWidth "." up to        *)
(* GlyphHeight rows and pads the row it touches with "." up to GlyphWidth  *)
(* characters; every other row that existed is left as it was, a short one *)
(* stays short; every in-bounds mark but the one at (row, col) is kept.    *)
C3_PadsTouchedRow ==
  [][\A p \in Pointers :
       (ValidSelection /\ Malformed(SelectedBits) /\ EditAt(p)) =>
         LET old == SelectedBits
             new == SelectedBits'
             touched == RowOf(p) + 1
         IN  /\ "BitArray" \in SelectedGlyph'.keys
             /\ Len(new) = Max(Len(old), DocHeight)
             /\ Len(new[touched]) =
                  Max(IF touched <= Len(old) THEN Len(old[touched]) ELSE 0, DocWidth)
             /\ \A r \in 1..Len(new) :
                  r # touched =>
                    new[r] = IF r <= Len(old) THEN old[r] ELSE Rep(".", DocWidth)
             /\ MarksKept(old, new, RowOf(p), ColOf(p))]_vars

\* glyph B of large.json, a row "" alone, after an edit of (1, 0): row 0 is
\* still short
C3_Witness ==
  /\ file_path = "large.json" /\ current_glyph_type = "LargeGlyphs"
  /\ current_char_index = 1 /\ ValidSelection
  /\ SelectedBits = << <<>>, <<"X">> >>
  /\ last_drag_cell = Cell(1, 0)

(* C4: a paintCell on the cell the stroke touched last changes nothing; a  *)
(* paintCell on another in-range cell of the selected glyph writes the     *)
(* paint value there and makes it the last-touched cell; the last-touched  *)
(* cell is never one of an earlier stroke.                                 *)
C4_RepeatPaintIsNoOp ==
  [][\A p \in Pointers :
       LET cell == Cell(RowOf(p), ColOf(p)) IN
       /\ (last_drag_cell = cell /\ PaintCellAt(p)) =>
            UNCHANGED <<font_data, last_drag_cell, paint_val, canvas>>
       /\ (PaintApplied(p) /\ PaintCellAt(p)) =>
            /\ last_drag_cell' = cell
            /\ Shown(SelectedBits', RowOf(p), ColOf(p)) =
                 (IF paint_val = "unset" THEN "X" ELSE paint_val)
       /\ \/ last_drag_cell' = (IF ToggleApplied(p) THEN cell ELSE NoneCell)
          \/ ~ToggleCellAt(p)]_vars

\* toggleCell(0, 0) has begun a stroke on a glyph of width 2, row 0 is "X."
\* and (0, 0) is the last-touched cell: paintCell(0, 0) is suppressed here
C4_Witness ==
  /\ ValidSelection /\ DocWidth = 2
  /\ stroke = StrokeAt("X", 0, 0)
  /\ last_drag_cell = Cell(0, 0)
  /\ SelectedBits[1] = <<"X", ".">>
  /\ ENABLED PaintCellAt(<<5, 5>>)

(* C5: an applied paintCell writes the mark that the toggleCell beginning  *)
(* the stroke wrote; it writes "X" while no toggleCell has ever been       *)
(* applied, and only an applied toggleCell changes the paint value.        *)
C5_PaintWritesStrokeValue ==
  [][/\ \A p \in Pointers :
          (PaintApplied(p) /\ PaintCellAt(p)) =>
            /\ stroke.state = "applied" =>
                 Shown(SelectedBits', RowOf(p), ColOf(p)) = stroke.mark
            /\ paint_val = "unset" =>
                 Shown(SelectedBits', RowOf(p), ColOf(p)) = "X"
     /\ paint_val' # paint_val =>
          \E p \in Pointers : ToggleApplied(p) /\ ToggleCellAt(p)]_vars

\* a stroke whose toggleCell wrote "." has painted "." on another cell that
\* is the last-touched one
C5_Witness ==
  /\ ValidSelection
  /\ stroke.state = "applied" /\ stroke.mark = "."
  /\ last_drag_cell.attr = "cell"
  /\ last_drag_cell # Cell(stroke.row, stroke.col)
  /\ Shown(SelectedBits, last_drag_cell.row, last_drag_cell.col) = "."
  /\ Shown(SelectedBits, stroke.row, stroke.col) = "."

(* C6: toggleCell on an in-range cell of the selected glyph that holds a   *)
(* mark (or nothing) flips the mark, and a toggleCell on the same cell in  *)
(* a following stroke restores the original mark.                          *)
C6_ToggleRoundTrip ==
  [][\A p \in Pointers :
       (ToggleApplied(p) /\ IsMark(SelectedBits, RowOf(p), ColOf(p))
          /\ ToggleCellAt(p)) =>
         LET once == SelectedBits'
             twice == ToggleBits(once, RowOf(p), ColOf(p), "toggle", paint_val',
                                 grid_width', grid_height')
         IN  /\ Shown(once, RowOf(p), ColOf(p)) # Shown(SelectedBits, RowOf(p), ColOf(p))
             /\ Shown(twice, RowOf(p), ColOf(p)) = Shown(SelectedBits, RowOf(p), ColOf(p))
             /\ Applies(p[1], p[2], "toggle", NoneCell)']_vars

\* glyph A of large.json is as in the file again, and the toggleCell that
\* began the stroke wrote "." over an "X"
C6_Witness ==
  /\ file_path = "large.json" /\ current_glyph_type = "LargeGlyphs"
  /\ current_char_index = 0 /\ ValidSelection
  /\ SelectedBits = << <<".">>, <<".">> >>
  /\ stroke.state = "applied" /\ stroke.mark = "."
  /\ last_drag_cell = Cell(stroke.row, stroke.col)

\* the first gw characters of a row, padded with "."
PadCut(row, gw) == [c \in 1..gw |-> IF c <= Len(row) THEN row[c] ELSE "."]

\* the first gw characters of a row are marks
RowIsMarks(row, gw) == \A c \in 1..gw : c <= Len(row) => row[c] \in Marks

(* C7: invertGlyph applied twice returns, for every row of marks that      *)
(* existed before, the row's first GlyphWidth characters padded with ".".  *)
C7_InvertTwice ==
  [][(ValidSelection /\ InvertGrid) =>
       LET twice == InvertBits(SelectedBits', grid_width', grid_height')
       IN  \A r \in 1..Len(SelectedBits) :
             RowIsMarks(SelectedBits[r], DocWidth) =>
               /\ r <= Len(twice)
               /\ twice[r] = PadCut(SelectedBits[r], DocWidth)]_vars

\* the small glyph of nonlist.json, rows "Xo." and "X" in the file, inverted
\* twice: row 1 is "X" padded with "."
C7_Witness ==
  /\ file_path = "nonlist.json" /\ current_glyph_type = "SmallGlyphs"
  /\ ValidSelection
  /\ SelectedBits = << <<"X", ".">>, <<"X", ".">> >>

(* C8: a confirmed clearGlyph leaves the selected glyph with exactly       *)
(* GlyphHeight rows of GlyphWidth "." of the loaded document.              *)
C8_ClearGlyph ==
  [][(ValidSelection /\ ClearGrid(TRUE)) =>
       /\ "BitArray" \in SelectedGlyph'.keys
       /\ SelectedBits' = [r \in 1..DocHeight |-> [c \in 1..DocWidth |-> "."]]]_vars

\* the small glyph of nonlist.json, two rows in the file, is one row ".."
C8_Witness ==
  /\ file_path = "nonlist.json" /\ current_glyph_type = "SmallGlyphs"
  /\ ValidSelection
  /\ SelectedBits = << <<".", ".">> >>

\* "." and "X" swapped
Swap(ch) == CASE ch = "." -> "X" [] ch = "X" -> "." [] OTHER -> ch

\* the bitmap the claim gives for invertGlyph on k <= GlyphHeight rows
InvertExpected(bits) ==
  [r \in 1..DocHeight |->
     IF r <= Len(bits)
       THEN [c \in 1..DocWidth |-> Swap(PadCut(bits[r], DocWidth)[c])]
       ELSE [c \in 1..DocWidth |-> "X"]]

(* C9: invertGlyph on a glyph of k <= GlyphHeight rows of marks leaves     *)
(* GlyphHeight rows of GlyphWidth characters: row r < k is the old row     *)
(* padded with ".", cut to GlyphWidth and swapped, row r >= k is all "X".  *)
C9_InvertResult ==
  [][(ValidSelection /\ Len(SelectedBits) <= DocHeight
        /\ (\A r \in 1..Len(SelectedBits) : RowIsMarks(SelectedBits[r], DocWidth))
        /\ InvertGrid) =>
       SelectedBits' = InvertExpected(SelectedBits)]_vars

\* the glyph of small.json, two rows "X" in the file and GlyphHeight 31,
\* inverted: rows 0-1 are "." and rows 2-30 are "X"
C9_Witness ==
  /\ file_path = "small.json" /\ ValidSelection
  /\ SelectedBits = [r \in 1..DefaultGridHeight |-> IF r <= 2 THEN <<".">> ELSE <<"X">>]

(* C10: a step that changes the current glyph type leaves no glyph         *)
(* selected.                                                               *)
C10_TypeChangeClearsSelection ==
  [][current_glyph_type' # current_glyph_type => current_char_index' = -1]_vars

(* C11: a selectGlyph during a stroke leaves no last-touched cell that     *)
(* would suppress a paintCell: a paintCell on any in-range cell of the     *)
(* newly selected glyph is applied.                                        *)
C11_SelectResetsLastCell ==
  [][\A i \in 0..(Len(char_listbox) - 1) :
       (stroke.state # "up" /\ OnCharSelect(i)) =>
         \A p \in Pointers :
           (InRange(p) /\ ValidSelection') => PaintApplied(p)']_vars

\* the load of `path` goes through without an error box
LoadSucceeds(path) ==
  path # Cancelled /\ OpenFileError(path, current_glyph_type) = "none"

\* the recognized glyph types present in the loaded document
TypesPresent == IF font_data.top = "dict" THEN TypesIn(font_data) ELSE <<>>

(* C12: after a successful load the combobox offers exactly the recognized *)
(* types present in the loaded document and, if there is one, the current  *)
(* type is present; a selectType on a loaded document never makes current  *)
(* a type the document does not contain.                                   *)
C12_TypesOffered ==
  [][/\ \A path \in Paths :
          (LoadSucceeds(path) /\ OpenFile(path)) =>
            /\ type_combo' = TypesPresent'
            /\ TypesPresent' # <<>> => current_glyph_type' \in font_data'.keys
     /\ \A i \in 1..Len(type_combo) :
          (font_data.top = "dict" /\ OnTypeChange(type_combo[i])) =>
            (current_glyph_type' # current_glyph_type
               => current_glyph_type' \in font_data.keys)]_vars

\* the exception the toggleCell or paintCell at p raises
ToggleCellAtError(p) == ToggleCellError(p[1], p[2], "toggle", NoneCell)
PaintCellAtError(p) == ToggleCellError(p[1], p[2], "paint", last_drag_cell)

(* C13: a toggleCell or paintCell whose row or column is outside the grid  *)
(* of the loaded document, a negative pointer coordinate included, raises  *)
(* no error and leaves the document and the drawn cells as they were.      *)
C13_OutOfRangeIgnored ==
  [][\A p \in Pointers :
       /\ (~InRange(p) /\ ToggleCellAt(p)) =>
            /\ ToggleCellAtError(p) = "none"
            /\ UNCHANGED <<font_data, canvas, paint_val>>
       /\ (~InRange(p) /\ PaintCellAt(p)) =>
            /\ PaintCellAtError(p) = "none"
            /\ UNCHANGED <<font_data, canvas, paint_val, last_drag_cell>>]_vars

\* glyph B of large.json, a row "" alone, is selected and as in the file, the
\* stroke in progress has changed nothing, and the pointer moves to column -1
C13_Witness ==
  /\ file_path = "large.json" /\ current_glyph_type = "LargeGlyphs"
  /\ current_char_index = 1 /\ ValidSelection
  /\ SelectedBits = << <<>> >>
  /\ stroke = StrokeNoop /\ last_drag_cell = NoneCell
  /\ ~InRange(<<5 - cell_size, 5>>)
  /\ ENABLED PaintCellAt(<<5 - cell_size, 5>>)

\* what a save that reports success leaves, from the state before it
SaveWritesDocument ==
  /\ files'[file_path].exists /\ files'[file_path].json
  /\ files'[file_path].value = font_data
  /\ \A p \in Paths \ {file_path} : files'[p] = files[p]

(* C14: in every state in which a save succeeds, the save leaves in the    *)
(* file the document was loaded from the document as it is in memory,      *)
(* edits included, and leaves every other file alone; a save that does not *)
(* succeed, and a save with no document loaded, write nothing; file_path   *)
(* is always the file the document in memory was loaded from.              *)
C14_SavePersists ==
  /\ [](SaveFileResult = "showinfo" => ENABLED (SaveFile /\ SaveWritesDocument))
  /\ [][/\ SaveFile =>
            /\ SaveFileResult = "showinfo" => SaveWritesDocument
            /\ SaveFileResult # "showinfo" => UNCHANGED files
            /\ font_data.top = "None" => UNCHANGED files
            /\ UNCHANGED <<font_data, file_path>>
       /\ (file_path' # file_path \/ font_data'.top # font_data.top) =>
            /\ OpenFile(file_path')
            /\ font_data' = files[file_path'].value]_vars

\* both.json holds what toggleCell(0, 0) made of its large glyph, row 0 "X.",
\* saved during the stroke
C14_Witness ==
  /\ file_path = "both.json" /\ current_glyph_type = "LargeGlyphs"
  /\ current_char_index = 0 /\ ValidSelection
  /\ SelectedBits = << <<"X", ".">> >>
  /\ stroke = StrokeAt("X", 0, 0) /\ last_drag_cell = Cell(0, 0)
  /\ files["both.json"].value = font_data
  /\ files["both.json"].value # BothFont
  /\ \A p \in Paths \ {"both.json"} : files[p] = InitialFiles[p]

\* the document a paintCell at p leaves when it is applied
PaintResult(p) ==
  SetBitArray(font_data, current_glyph_type, current_char_index,
              ToggleBits(SelectedBits, RowOf(p), ColOf(p), "paint", paint_val,
                         grid_width, grid_height))

\* a session holds the document of large.json as it was read, glyph A is
\* selected, and the stroke in progress began with a toggleCell that was
\* out of range and has touched no cell
FreshStrokeOnA ==
  /\ file_path = "large.json" /\ font_data = LargeFont
  /\ current_glyph_type = "LargeGlyphs" /\ current_char_index = 0
  /\ grid_width = 1 /\ grid_height = 2
  /\ stroke = StrokeNoop /\ last_drag_cell = NoneCell

\* glyph A of large.json with the mark `mark` at (0, 0)
LargeFontWith(mark) ==
  SetBitArray(LargeFont, "LargeGlyphs", 0, << <<mark>>, <<".">> >>)

(* C15: what a stroke does to the document depends on the document, the    *)
(* selection and the stroke's own events only. In a session without any    *)
(* earlier stroke, a paintCell(0, 0) in the situation FreshStrokeOnA       *)
(* writes "X"; so it writes "X" in every session that is in that           *)
(* situation, whatever strokes came before.                                *)
C15_StrokesIndependent ==
  FreshStrokeOnA => PaintResult(<<5, 5>>) = LargeFontWith("X")

\* the session without any earlier stroke, in which that paintCell writes "X"
FirstStrokeOnA ==
  /\ FreshStrokeOnA /\ paint_val = "unset"
  /\ PaintResult(<<5, 5>>) = LargeFontWith("X")
  /\ ENABLED (PaintCellAt(<<5, 5>>) /\ font_data' = LargeFontWith("X"))

\* a step leaves GlyphWidth, GlyphHeight, the glyph lists, every glyph's
\* Character and every glyph but the selected one as they were
OthersKept ==
  /\ font_data'.top = font_data.top /\ font_data'.keys = font_data.keys
  /\ font_data'.GlyphWidth = font_data.GlyphWidth
  /\ font_data'.GlyphHeight = font_data.GlyphHeight
  /\ \A i \in 1..Len(GlyphTypes) :
       LET old == font_data[GlyphTypes[i]]
           new == font_data'[GlyphTypes[i]]
       IN  /\ new.islist = old.islist
           /\ Len(new.items) = Len(old.items)
           /\ \A k \in 1..Len(old.items) :
                /\ new.items[k].Character = old.items[k].Character
                /\ new.items[k].keys \ {"BitArray"} = old.items[k].keys \ {"BitArray"}
                /\ (GlyphTypes[i] # current_glyph_type \/ k # current_char_index + 1)
                     => new.items[k] = old.items[k]

\* every cell but (row, col) shows in `new` what it showed in `old`
OtherCellsKept(old, new, row, col) ==
  \A r \in 0..Max(Len(old), Len(new)), c \in 0..(DocWidth + 1) :
    <<r, c>> # <<row, col>> => Shown(new, r, c) = Shown(old, r, c)

(* C16: every toggleCell, paintCell, clearGlyph and invertGlyph leaves     *)
(* every glyph but the selected one, every Character and GlyphWidth and    *)
(* GlyphHeight as they were; a toggleCell or paintCell also leaves what    *)
(* every cell other than (row, col) of the selected glyph shows; with no   *)
(* glyph selected, and when the clearGlyph confirmation is declined, the   *)
(* document is unchanged.                                                  *)
C16_EditsConfined ==
  [][\/ UNCHANGED font_data  \* nothing to show for a step that keeps the document
     \/ /\ \A p \in Pointers :
             (ToggleCellAt(p) \/ PaintCellAt(p)) =>
               /\ OthersKept
               /\ ValidSelection =>
                    OtherCellsKept(SelectedBits, SelectedBits', RowOf(p), ColOf(p))
               /\ current_char_index >= 0
        /\ (ClearGrid(TRUE) \/ InvertGrid) =>
               /\ OthersKept
               /\ current_char_index >= 0
        /\ ~ClearGrid(FALSE)]_vars

\* a paintCell has written "X" at (1, 0) of glyph A of large.json, whose cell
\* (0, 0) the stroke's toggleCell had set; glyph B is as in the file
C16_Witness ==
  /\ file_path = "large.json" /\ current_glyph_type = "LargeGlyphs"
  /\ current_char_index = 0 /\ ValidSelection
  /\ SelectedBits = << <<"X">>, <<"X">> >>
  /\ stroke = StrokeAt("X", 0, 0) /\ last_drag_cell = Cell(1, 0)
  /\ font_data.LargeGlyphs.items[2] = LargeFont.LargeGlyphs.items[2]
  /\ font_data.LargeGlyphs.items[1].Character = "A"

\* the GlyphHeight x GlyphWidth view of a bitmap: a cell is on ("black") iff
\* its stored character exists and is "X"
PaddedView(bits) ==
  [r \in 1..DocHeight |-> [c \in 1..DocWidth |->
     IF Shown(bits, r - 1, c - 1) = "X" THEN "black" ELSE "white"]]

(* C17: in every reachable state the canvas shows no cells when no glyph   *)
(* is selected, and otherwise exactly the GlyphHeight x GlyphWidth padded  *)
(* view of the selected glyph of the loaded document.                      *)
C17_CanvasCoherent ==
  /\ current_char_index < 0 => canvas = <<>>
  /\ ValidSelection => canvas = PaddedView(SelectedBits)

\* cell (r, c) of a bitmap is displayed as on
DisplayedOn(bits, r, c) == Shown(bits, r, c) = "X"

(* C18: invertGlyph on any bitmap of the selected glyph (short, missing,   *)
(* over-long or extra rows, characters other than "." and "X") leaves each *)
(* cell of the GlyphHeight x GlyphWidth grid displayed as on iff it was    *)
(* displayed as off before.                                                *)
C18_InvertComplementsView ==
  [][(ValidSelection /\ InvertGrid) =>
       \A r \in 0..(DocHeight - 1), c \in 0..(DocWidth - 1) :
         DisplayedOn(SelectedBits', r, c) <=> ~DisplayedOn(SelectedBits, r, c)]_vars

\* the small glyph of nonlist.json (2x1), rows "Xo." and "X" in the file,
\* inverted once: the "o" and the missing cell are on, both "X" are off
C18_Witness ==
  /\ file_path = "nonlist.json" /\ current_glyph_type = "SmallGlyphs"
  /\ current_char_index = 0 /\ ValidSelection
  /\ SelectedBits = << <<".", "X">>, <<".", "X">> >>

====
